---- MODULE Spec2Model ----
(***************************************************************************)
(* Model of the Argo CD connector (src/argo-cd/operations.py): the client  *)
(* ArgoCD (URL normalisation, one authenticated HTTP call, translation of  *)
(* failures into ConnectorError), the payload sanitizer check_payload and  *)
(* the operation functions.                                                *)
(*                                                                         *)
(* Python values are tagged records: A(s) is a non-mapping value (None,    *)
(* the empty string, a falsy value that is neither, a non-empty string, an *)
(* object json cannot serialise) and D(f) is a dict whose content is the   *)
(* function f from keys to values.  Strings whose characters matter (the   *)
(* server address) are sequences of one-character strings.                 *)
(***************************************************************************)
EXTENDS Integers, Sequences, FiniteSets, TLC

VARIABLES pc, op, config, params, cd, todo, sent, net, result, raised_at,
          san_in, san_out, san_twice

vars == <<pc, op, config, params, cd, todo, sent, net, result, raised_at,
          san_in, san_out, san_twice>>

(***************************************************************************)
(* Bounds of the model.                                                    *)
(***************************************************************************)
\* depth of the nested mappings handed to the sanitizer on its own
MaxDepth == 3
\* how many times the caller already wrote /api/v1 at the end of the address
MaxApi == 1
\* how many slashes the caller wrote at the end of the address
MaxSlash == 1

(***************************************************************************)
(* Python values.                                                          *)
(***************************************************************************)
A(s) == [t |-> "atom", v |-> s]
D(f) == [t |-> "dict", v |-> f]
None == A("None")
EmptyStr == A("")
\* 0, False and [] : falsy, but neither None nor the empty string
Zero == A("0")
\* a value json.dumps rejects (a set, bytes, ...)
Obj == A("obj")
EmptyDict == [k \in {} |-> None]

IsDict(value) == value.t = "dict"

\* bool(value), as `if value:` evaluates it
Truthy(value) ==
    IF IsDict(value) THEN DOMAIN value.v # {}
    ELSE value.v \notin {"None", "", "0"}

\* mapping.get(key): None when the key is absent
Get(mapping, key) == IF key \in DOMAIN mapping THEN mapping[key] ELSE None

\* a mutation of update: the value already present wins a collision
update_keep_first(d, e) ==
    [k \in DOMAIN d \cup DOMAIN e |-> IF k \in DOMAIN d THEN d[k] ELSE e[k]]

\* d.update(e): every key of e is set in d, replacing the whole value
update(d, e) ==
    [k \in DOMAIN d \cup DOMAIN e |-> IF k \in DOMAIN e THEN e[k] ELSE d[k]]

\* "{0}".format(value) of a non-mapping value
Format(value) == value.v

(***************************************************************************)
(* Exceptions.  An exception is its class and its str().                   *)
(***************************************************************************)
Exc(cls, msg) == [cls |-> cls, msg |-> msg]
NoExc == Exc("", <<>>)
ConnectorError(msg) == Exc("ConnectorError", msg)
\* str(err): the message the exception was built with (ConnectorError, of
\* the connector framework, is taken to keep Exception's str)
StrOf(err) == err.msg

\* the classes an exception of class cls is an instance of
Bases(cls) ==
    CASE cls = "SSLError" ->
           {"SSLError", "ConnectionError", "RequestException", "Exception"}
      [] cls = "ConnectTimeout" ->
           {"ConnectTimeout", "ConnectionError", "Timeout",
            "RequestException", "Exception"}
      [] cls = "ReadTimeout" ->
           {"ReadTimeout", "Timeout", "RequestException", "Exception"}
      [] cls = "ProxyError" ->
           {"ProxyError", "ConnectionError", "RequestException", "Exception"}
      [] cls = "ConnectionError" ->
           {"ConnectionError", "RequestException", "Exception"}
      [] cls = "TooManyRedirects" ->
           {"TooManyRedirects", "RequestException", "Exception"}
      [] OTHER -> {cls, "Exception"}

(***************************************************************************)
(* Character strings and the client's constructor.                         *)
(***************************************************************************)
Slash == <<"/">>
Https == <<"h", "t", "t", "p", "s", ":", "/", "/">>
Http == <<"h", "t", "t", "p", ":", "/", "/">>
ApiV1 == <<"/", "a", "p", "i", "/", "v", "1">>
Host == <<"c", "d">>

Str(s) == [t |-> "str", v |-> s]
NoneStr == [t |-> "none", v |-> <<>>]

startswith(s, prefix) ==
    /\ Len(s) >= Len(prefix)
    /\ SubSeq(s, 1, Len(prefix)) = prefix

endswith(s, suffix) ==
    /\ Len(s) >= Len(suffix)
    /\ SubSeq(s, Len(s) - Len(suffix) + 1, Len(s)) = suffix

RECURSIVE lstrip(_, _)
lstrip(s, c) ==
    IF s # <<>> /\ Head(s) = c THEN lstrip(Tail(s), c) ELSE s

RECURSIVE rstrip(_, _)
rstrip(s, c) ==
    IF s # <<>> /\ s[Len(s)] = c THEN rstrip(SubSeq(s, 1, Len(s) - 1), c)
    ELSE s

\* s.strip(c): every leading and every trailing c is removed
strip(s, c) == rstrip(lstrip(s, c), c)

RECURSIVE Repeat(_, _)
Repeat(s, n) == IF n = 0 THEN <<>> ELSE s \o Repeat(s, n - 1)

NoClient == [url |-> <<>>, api_token |-> NoneStr, verify_ssl |-> FALSE]

\* ArgoCD.__init__: the client, or the exception the constructor raises
ArgoCD_init(cfg) ==
    IF cfg.server_url.t = "none"
    THEN [exc |-> Exc("AttributeError",
                      <<"'NoneType' object has no attribute 'strip'">>),
          cd |-> NoClient]
    ELSE LET url == strip(cfg.server_url.v, "/")
         IN [exc |-> NoExc,
             cd |-> [url |-> IF ~startswith(url, Https) /\ ~startswith(url, Http)
                             THEN Https \o url \o ApiV1
                             ELSE url \o ApiV1,
                     api_token |-> cfg.api_token,
                     verify_ssl |-> cfg.verify_ssl]]

(***************************************************************************)
(* The payload sanitizer.                                                  *)
(***************************************************************************)
\* a mutation of check_payload: a nested mapping is dropped when it is empty
\* as given, not when its sanitized form is empty
RECURSIVE check_payload_tests_value(_)
check_payload_tests_value(payload) ==
    LET kept == {key \in DOMAIN payload :
                   IF IsDict(payload[key])
                   THEN DOMAIN payload[key].v # {}
                   ELSE payload[key] # EmptyStr /\ payload[key] # None}
    IN [key \in kept |->
          IF IsDict(payload[key]) THEN D(check_payload_tests_value(payload[key].v))
          ELSE payload[key]]

\* a mutation of check_payload: None is not dropped
RECURSIVE check_payload_keeps_none(_)
check_payload_keeps_none(payload) ==
    LET kept == {key \in DOMAIN payload :
                   IF IsDict(payload[key])
                   THEN DOMAIN check_payload_keeps_none(payload[key].v) # {}
                   ELSE payload[key] # EmptyStr}
    IN [key \in kept |->
          IF IsDict(payload[key]) THEN D(check_payload_keeps_none(payload[key].v))
          ELSE payload[key]]

RECURSIVE check_payload(_)
check_payload(payload) ==
    LET kept == {key \in DOMAIN payload :
                   IF IsDict(payload[key])
                   THEN DOMAIN check_payload(payload[key].v) # {}
                   ELSE payload[key] # EmptyStr /\ payload[key] # None}
    IN [key \in kept |->
          IF IsDict(payload[key]) THEN D(check_payload(payload[key].v))
          ELSE payload[key]]

(***************************************************************************)
(* json.dumps.  The serialised document is the set of its leaves, each a   *)
(* key path with the JSON literal found there; an empty object is a leaf.  *)
(***************************************************************************)
JsonLiteral(value) ==
    CASE value = None -> "null"
      [] value = EmptyStr -> "\"\""
      [] value = Zero -> "0"
      [] OTHER -> "\"" \o value.v \o "\""

RECURSIVE Serialisable(_)
Serialisable(mapping) ==
    \A key \in DOMAIN mapping :
        IF IsDict(mapping[key]) THEN Serialisable(mapping[key].v)
        ELSE mapping[key] # Obj

RECURSIVE Leaves(_, _)
Leaves(path, mapping) ==
    IF DOMAIN mapping = {} THEN {<<path, "{}">>}
    ELSE UNION {IF IsDict(mapping[key])
                THEN Leaves(Append(path, key), mapping[key].v)
                ELSE {<<Append(path, key), JsonLiteral(mapping[key])>>} :
                key \in DOMAIN mapping}

NoData == [present |-> FALSE, doc |-> {}]
NoQuery == [present |-> FALSE, q |-> EmptyDict]

\* json.dumps(payload): the document, or the TypeError json raises
json_dumps(payload) ==
    IF Serialisable(payload)
    THEN [exc |-> NoExc, data |-> [present |-> TRUE, doc |-> Leaves(<<>>, payload)]]
    ELSE [exc |-> Exc("TypeError", <<"Object is not JSON serializable">>),
          data |-> NoData]

(***************************************************************************)
(* The request body of create_application and update_application.          *)
(***************************************************************************)
\* dict.update(value) of a value that is no mapping
NotAMapping(value) ==
    IF value = Obj
    THEN Exc("TypeError", <<"object is not iterable">>)
    ELSE Exc("ValueError", <<"dictionary update sequence element #0 has length 1; 2 is required">>)

Built(payload) == [exc |-> NoExc, payload |-> payload]
Failed(exc) == [exc |-> exc, payload |-> EmptyDict]

\* payload[key].update(value), when value is truthy
UpdateNested(st, key, value) ==
    IF st.exc # NoExc \/ ~Truthy(value) THEN st
    ELSE IF ~IsDict(value) THEN Failed(NotAMapping(value))
    ELSE Built([st.payload EXCEPT ![key] = D(update(st.payload[key].v, value.v))])

\* payload.update({'operation': operation}), when operation is truthy
UpdateOperation(st, operation) ==
    IF st.exc # NoExc \/ ~Truthy(operation) THEN st
    ELSE Built(update(st.payload, [operation |-> operation]))

\* payload.update(additional_properties), when it is truthy
UpdateAdditional(st, additional_properties) ==
    IF st.exc # NoExc \/ ~Truthy(additional_properties) THEN st
    ELSE IF ~IsDict(additional_properties)
         THEN Failed(NotAMapping(additional_properties))
    ELSE Built(update(st.payload, additional_properties.v))

\* the payload before it is sanitized
MergedPayload(p) ==
    LET base == Built([metadata |-> D([name |-> Get(p, "name")]),
                       spec |-> D([source |-> Get(p, "source"),
                                   destination |-> Get(p, "destination")])])
        s1 == UpdateNested(base, "spec", Get(p, "spec"))
        s2 == UpdateNested(s1, "metadata", Get(p, "metadata"))
        s3 == UpdateOperation(s2, Get(p, "operation"))
    IN UpdateAdditional(s3, Get(p, "additional_properties"))

\* payload = check_payload(payload); data = json.dumps(payload)
BuildBody(p) ==
    LET merged == MergedPayload(p)
    IN IF merged.exc # NoExc THEN [exc |-> merged.exc, data |-> NoData]
       ELSE json_dumps(check_payload(merged.payload))

(***************************************************************************)
(* The query mappings of get_applications and get_clusters.                *)
(***************************************************************************)
\* a mutation of FilterQuery: only None is dropped
FilterQueryNoneOnly(query_params) ==
    [k \in {k \in DOMAIN query_params : query_params[k] # None} |-> query_params[k]]

\* {k: v for k, v in query_params.items() if v is not None and v != ''}
FilterQuery(query_params) ==
    [k \in {k \in DOMAIN query_params :
              query_params[k] # None /\ query_params[k] # EmptyStr} |->
       query_params[k]]

ApplicationsQuery(p) ==
    LET named == [name |-> Get(p, "name"), projects |-> Get(p, "projects")]
        additional_fields == Get(p, "additional_fields")
    IN IF ~Truthy(additional_fields)
       THEN [exc |-> NoExc, query |-> [present |-> TRUE, q |-> FilterQuery(named)]]
       ELSE IF ~IsDict(additional_fields)
            THEN [exc |-> NotAMapping(additional_fields), query |-> NoQuery]
       ELSE [exc |-> NoExc,
             query |-> [present |-> TRUE,
                        q |-> FilterQuery(update(named, additional_fields.v))]]

ClustersQuery(p) ==
    [exc |-> NoExc,
     query |-> [present |-> TRUE,
                q |-> FilterQuery([server |-> Get(p, "server"),
                                   name |-> Get(p, "name")])]]

(***************************************************************************)
(* What each operation function does before it calls make_rest_call: the   *)
(* calls it will make, or the exception raised while preparing them.       *)
(***************************************************************************)
Request(method, endpoint, data, query) ==
    [method |-> method, endpoint |-> endpoint, data |-> data, params |-> query]

Plan(exc, calls) == [exc |-> exc, calls |-> IF exc = NoExc THEN calls ELSE <<>>]

NamedEndpoint(p) == <<"/applications/", Format(Get(p, "name"))>>

create_application_calls(p) ==
    LET body == BuildBody(p)
    IN Plan(body.exc, <<Request("POST", <<"/applications">>, body.data, NoQuery)>>)

\* a mutation of get_applications_calls: the request is issued a second time
get_applications_calls_twice(p) ==
    LET built == ApplicationsQuery(p)
        request == Request("GET", <<"/applications">>, NoData, built.query)
    IN Plan(built.exc, <<request, request>>)

get_applications_calls(p) ==
    LET built == ApplicationsQuery(p)
    IN Plan(built.exc, <<Request("GET", <<"/applications">>, NoData, built.query)>>)

get_application_by_name_calls(p) ==
    Plan(NoExc, <<Request("GET", NamedEndpoint(p), NoData, NoQuery)>>)

update_application_calls(p) ==
    LET body == BuildBody(p)
    IN Plan(body.exc, <<Request("PUT", NamedEndpoint(p), body.data, NoQuery)>>)

delete_application_calls(p) ==
    Plan(NoExc, <<Request("DELETE", NamedEndpoint(p), NoData, NoQuery)>>)

get_clusters_calls(p) ==
    LET built == ClustersQuery(p)
    IN Plan(built.exc, <<Request("GET", <<"/clusters">>, NoData, built.query)>>)

\* check_health delegates to get_applications with these params
check_health_params == [additional_properties |-> EmptyStr]

Calls(name, p) ==
    CASE name = "create_application" -> create_application_calls(p)
      [] name = "get_applications" -> get_applications_calls(p)
      [] name = "get_application_by_name" -> get_application_by_name_calls(p)
      [] name = "update_application" -> update_application_calls(p)
      [] name = "delete_application" -> delete_application_calls(p)
      [] name = "get_clusters" -> get_clusters_calls(p)
      [] name = "check_health" -> get_applications_calls(check_health_params)

(***************************************************************************)
(* make_rest_call.                                                         *)
(***************************************************************************)
\* 'Bearer ' + self.api_token
Headers(client) ==
    IF client.api_token.t = "none"
    THEN [exc |-> Exc("TypeError", <<"can only concatenate str (not \"NoneType\") to str">>),
          authorization |-> <<>>]
    ELSE [exc |-> NoExc, authorization |-> <<"Bearer ">> \o client.api_token.v]

\* response.ok: raise_for_status() does not raise
ResponseOk(status_code) == ~(400 <= status_code /\ status_code < 600)

\* a mutation of IsSuccess: only 200 counts
IsSuccessOnly200(response) == response.status_code = 200

\* response.ok or response.status_code == 204
IsSuccess(response) ==
    ResponseOk(response.status_code) \/ response.status_code = 204

\* response.json() of the body texts of the model
JsonLoads(text) ==
    CASE text = "{}" -> [exc |-> NoExc, truthy |-> FALSE]
      [] text = "{\"items\":[1]}" -> [exc |-> NoExc, truthy |-> TRUE]
      [] OTHER -> [exc |-> Exc("JSONDecodeError", <<"Expecting value: line 1 column 1 (char 0)">>),
                   truthy |-> FALSE]

Value(t, v, truthy) == [t |-> t, v |-> v, truthy |-> truthy]
NoValue == Value("unset", <<>>, FALSE)
PyNone == Value("None", <<>>, FALSE)
PyTrue == Value("bool", <<"True">>, TRUE)

\* the body of the try block once the response is there: the value returned
\* or the exception raised
HandleResponse(response) ==
    IF IsSuccess(response)
    THEN IF response.json_header
         THEN LET parsed == JsonLoads(response.text)
              IN [exc |-> parsed.exc,
                  val |-> IF parsed.exc = NoExc
                          THEN Value("json", <<response.text>>, parsed.truthy)
                          ELSE NoValue]
         ELSE [exc |-> NoExc,
               val |-> Value("response", <<ToString(response.status_code), response.text>>,
                             ResponseOk(response.status_code))]
    ELSE [exc |-> ConnectorError(<<ToString(response.status_code), ":", response.text>>),
          val |-> NoValue]

Clause(catch, fixed, msg) == [catch |-> catch, fixed |-> fixed, msg |-> msg]

\* a mutation of ExceptClauses: ConnectionError is caught first
ExceptClausesConnectionFirst ==
    << Clause("ConnectionError", TRUE, <<"Invalid Credentials">>),
       Clause("SSLError", TRUE, <<"SSL certificate validation failed">>),
       Clause("ConnectTimeout", TRUE,
              <<"The request timed out while trying to connect to the server">>),
       Clause("ReadTimeout", TRUE,
              <<"The server did not send any data in the allotted amount of time">>),
       Clause("Exception", FALSE, <<>>) >>

\* the except clauses of make_rest_call, in their order
ExceptClauses ==
    << Clause("SSLError", TRUE, <<"SSL certificate validation failed">>),
       Clause("ConnectTimeout", TRUE,
              <<"The request timed out while trying to connect to the server">>),
       Clause("ReadTimeout", TRUE,
              <<"The server did not send any data in the allotted amount of time">>),
       Clause("ConnectionError", TRUE, <<"Invalid Credentials">>),
       Clause("Exception", FALSE, <<>>) >>

\* the first clause that matches err decides what make_rest_call raises
make_rest_call_except(err) ==
    LET i == CHOOSE i \in 1..Len(ExceptClauses) :
                 /\ ExceptClauses[i].catch \in Bases(err.cls)
                 /\ \A j \in 1..(i - 1) : ExceptClauses[j].catch \notin Bases(err.cls)
    IN ConnectorError(IF ExceptClauses[i].fixed THEN ExceptClauses[i].msg
                      ELSE StrOf(err))

(***************************************************************************)
(* The end of an operation function.                                       *)
(***************************************************************************)
\* a mutation of operation_except: the exception is let through
operation_except_passes(err) == err

\* except Exception as err: raise ConnectorError(str(err))
operation_except(err) == ConnectorError(StrOf(err))

\* what reaches the caller of operation `name` when err is raised in its try
Escapes(name, err) ==
    IF name = "check_health" THEN operation_except(operation_except(err))
    ELSE operation_except(err)

\* what operation `name` returns when make_rest_call returned response
Returns(name, p, response) ==
    CASE name = "delete_application" ->
           Value("message", <<"Successfully deleted application: ",
                              Format(Get(p, "name"))>>, TRUE)
      [] name = "check_health" ->
           IF response.truthy THEN PyTrue ELSE PyNone
      [] OTHER -> response

(***************************************************************************)
(* The inputs of the model.                                                *)
(***************************************************************************)
Token == Str(<<"t", "o", "k">>)

Config(server_url, api_token) ==
    [server_url |-> server_url, api_token |-> api_token, verify_ssl |-> TRUE]

\* server addresses: an optional scheme, the host, /api/v1 already written
\* up to MaxApi times, up to MaxSlash trailing slashes
Addresses ==
    {scheme \o Host \o Repeat(ApiV1, n) \o Repeat(Slash, m) :
        scheme \in {<<>>, Http, Https}, n \in 0..MaxApi, m \in 0..MaxSlash}

Configs ==
    {Config(url, token) :
        url \in {NoneStr} \cup {Str(a) : a \in Addresses},
        token \in {NoneStr, Token}}

GoodConfig == Config(Str(Host), Token)

Source == D([repoURL |-> A("r")])
Destination == D([server |-> A("s")])

\* every mapping from some of the keys of choices to a value the key may take
RECURSIVE Params(_)
Params(choices) ==
    IF DOMAIN choices = {} THEN {EmptyDict}
    ELSE LET key == CHOOSE k \in DOMAIN choices : TRUE
             rest == Params([k \in DOMAIN choices \ {key} |-> choices[k]])
         IN rest \cup {(key :> v) @@ r : r \in rest, v \in choices[key]}

\* params of create_application and update_application for the error paths
BodyParamsSmall ==
    {[name |-> A("a"), source |-> Source, destination |-> Destination],
     [name |-> A("a"), source |-> Obj],
     [name |-> A("a"), spec |-> A("x")],
     [name |-> None]}

\* params of create_application and update_application for the merge
BodyParams ==
    {f \in Params([name |-> {A("a")},
                   source |-> {Source},
                   destination |-> {EmptyStr},
                   spec |-> {EmptyStr, D(EmptyDict), A("x"),
                             D([source |-> D([x |-> A("1")])]),
                             D([project |-> A("p"), destination |-> None])},
                   metadata |-> {D([labels |-> D([env |-> A("p")])]),
                                 D([name |-> A("m")]),
                                 D([name |-> EmptyStr, labels |-> D([env |-> EmptyStr])]),
                                 Obj},
                   operation |-> {D([sync |-> D(EmptyDict)]),
                                  D([sync |-> D([prune |-> Zero])]),
                                  A("x")},
                   additional_properties |->
                       {D([metadata |-> D([name |-> A("b")])]),
                        D([metadata |-> EmptyStr]),
                        D([spec |-> D([project |-> A("q")])]),
                        D([operation |-> None, extra |-> D([k |-> D([j |-> EmptyStr])])]),
                        A("x")}]) :
        "name" \in DOMAIN f}

QueryParamsSmall ==
    {EmptyDict, [name |-> A("a")], [additional_fields |-> A("x")]}

QueryParams ==
    Params([name |-> {None, EmptyStr, A("a")},
            projects |-> {None, EmptyStr, A("p")},
            additional_fields |-> {EmptyStr, D(EmptyDict), A("x"),
                                   D([name |-> A("b")]),
                                   D([name |-> EmptyStr]),
                                   D([projects |-> None, extra |-> A("e")]),
                                   D([extra |-> EmptyStr, selector |-> Zero])}])

ClusterParams ==
    Params([server |-> {None, EmptyStr, A("s")},
            name |-> {None, EmptyStr, A("a")}])

NameParams == {EmptyDict, [name |-> A("a")]}

\* what the network can do to a request
TransportErrors ==
    {"SSLError", "ConnectTimeout", "ReadTimeout", "ConnectionError",
     "ProxyError", "TooManyRedirects"}

Texts == {"", "{}", "{\"items\":[1]}", "Not Found"}

Response(status_code, json_header, text) ==
    [status_code |-> status_code, json_header |-> json_header, text |-> text]

Responses ==
    {Response(s, j, t) : s \in {200, 204, 302, 400, 404, 500}, j \in BOOLEAN, t \in Texts}

ResponsesSmall ==
    {Response(200, TRUE, "{\"items\":[1]}"), Response(404, FALSE, "Not Found")}

\* the nested mappings handed to the sanitizer on its own: up to two keys,
\* the first holding any value down to the given depth, the second a value
\* that is no mapping
SanAtoms == {None, EmptyStr, Zero}

RECURSIVE Mappings(_)
Mappings(depth) ==
    LET nested == IF depth = 1 THEN {} ELSE {D(f) : f \in Mappings(depth - 1)}
        first == {EmptyDict} \cup {"k1" :> v : v \in SanAtoms \cup nested}
        second == {EmptyDict} \cup {"k2" :> v : v \in SanAtoms}
    IN {f @@ g : f \in first, g \in second}

(***************************************************************************)
(* The state machine.                                                      *)
(***************************************************************************)
\* what requests.request last did: nothing yet, an exception, a response
Net(kind, cls, response) == [kind |-> kind, cls |-> cls, response |-> response]
Quiet == Net("none", "", Response(0, FALSE, ""))

Outcome(kind, exc, val) == [kind |-> kind, exc |-> exc, val |-> val]
NoOutcome == Outcome("none", NoExc, NoValue)

Init ==
    /\ pc = "idle"
    /\ op = ""
    /\ config = Config(NoneStr, NoneStr)
    /\ params = EmptyDict
    /\ cd = NoClient
    /\ todo = <<>>
    /\ sent = <<>>
    /\ net = Quiet
    /\ result = NoOutcome
    /\ raised_at = ""
    /\ san_in = EmptyDict
    /\ san_out = EmptyDict
    /\ san_twice = EmptyDict

\* requests.request(method, url, data=data, params=params, ...)
Wire(client, request) ==
    [method |-> request.method, url |-> client.url \o request.endpoint,
     data |-> request.data, params |-> request.params,
     verify |-> client.verify_ssl]

\* the operation raises: err is what was raised inside its try block
Raise(name, err, where) ==
    /\ result' = Outcome("raise", Escapes(name, err), NoValue)
    /\ raised_at' = where
    /\ todo' = <<>>
    /\ pc' = "done"

\* operation `name` is called with config c and params p and runs up to its
\* HTTP request
Invoke(name, c, p) ==
    /\ op' = name
    /\ config' = c
    /\ params' = p
    /\ UNCHANGED <<net, san_in, san_out, san_twice>>
    /\ LET made == ArgoCD_init(c)
           plan == Calls(name, p)
           headers == Headers(made.cd)
       IN /\ cd' = made.cd
          /\ IF made.exc # NoExc
             THEN Raise(name, made.exc, "ArgoCD.__init__") /\ sent' = sent
             ELSE IF plan.exc # NoExc
             THEN Raise(name, plan.exc, "build") /\ sent' = sent
             ELSE IF headers.exc # NoExc
             THEN Raise(name, make_rest_call_except(headers.exc), "headers")
                  /\ sent' = sent
             ELSE /\ sent' = Append(sent, Wire(made.cd, Head(plan.calls)))
                  /\ todo' = Tail(plan.calls)
                  /\ pc' = "waiting"
                  /\ UNCHANGED <<result, raised_at>>

create_application(Cs, Ps) ==
    /\ pc = "idle"
    /\ \E c \in Cs, p \in Ps : Invoke("create_application", c, p)

get_applications(Cs, Ps) ==
    /\ pc = "idle"
    /\ \E c \in Cs, p \in Ps : Invoke("get_applications", c, p)

get_application_by_name(Cs, Ps) ==
    /\ pc = "idle"
    /\ \E c \in Cs, p \in Ps : Invoke("get_application_by_name", c, p)

update_application(Cs, Ps) ==
    /\ pc = "idle"
    /\ \E c \in Cs, p \in Ps : Invoke("update_application", c, p)

delete_application(Cs, Ps) ==
    /\ pc = "idle"
    /\ \E c \in Cs, p \in Ps : Invoke("delete_application", c, p)

get_clusters(Cs, Ps) ==
    /\ pc = "idle"
    /\ \E c \in Cs, p \in Ps : Invoke("get_clusters", c, p)

check_health(Cs) ==
    /\ pc = "idle"
    /\ \E c \in Cs : Invoke("check_health", c, EmptyDict)

\* requests.request raises: the except clauses of make_rest_call and of the
\* operation run, and the operation is over
TransportFails(Es) ==
    /\ pc = "waiting"
    /\ \E cls \in Es :
          /\ net' = Net("exception", cls, Quiet.response)
          /\ Raise(op, make_rest_call_except(Exc(cls, <<cls, " raised by requests">>)),
                   "requests.request")
    /\ UNCHANGED <<op, config, params, cd, sent, san_in, san_out, san_twice>>

\* requests.request returns a response: make_rest_call returns or raises,
\* and the operation goes on to its next call, returns or raises
ResponseArrives(Rs) ==
    /\ pc = "waiting"
    /\ \E response \in Rs :
          LET handled == HandleResponse(response)
          IN /\ net' = Net("response", "", response)
             /\ IF handled.exc # NoExc
                THEN Raise(op, make_rest_call_except(handled.exc), "response")
                     /\ sent' = sent
                ELSE IF todo # <<>>
                THEN /\ sent' = Append(sent, Wire(cd, Head(todo)))
                     /\ todo' = Tail(todo)
                     /\ UNCHANGED <<pc, result, raised_at>>
                ELSE /\ result' = Outcome("return", NoExc,
                                          Returns(op, params, handled.val))
                     /\ pc' = "done"
                     /\ UNCHANGED <<sent, todo, raised_at>>
    /\ UNCHANGED <<op, config, params, cd, san_in, san_out, san_twice>>

\* check_payload applied to a nested mapping
Sanitize(Xs) ==
    /\ pc = "idle"
    /\ \E x \in Xs :
          /\ san_in' = x
          /\ san_out' = check_payload(x)
    /\ pc' = "sanitized"
    /\ UNCHANGED <<op, config, params, cd, todo, sent, net, result, raised_at,
                   san_twice>>

\* check_payload applied to its own result
SanitizeAgain ==
    /\ pc = "sanitized"
    /\ san_twice' = check_payload(san_out)
    /\ pc' = "resanitized"
    /\ UNCHANGED <<op, config, params, cd, todo, sent, net, result, raised_at,
                   san_in, san_out>>

\* the call is over; nothing of it is kept for the next one
Finish ==
    /\ pc \in {"done", "resanitized"}
    /\ pc' = "idle"
    /\ op' = ""
    /\ config' = Config(NoneStr, NoneStr)
    /\ params' = EmptyDict
    /\ cd' = NoClient
    /\ todo' = <<>>
    /\ sent' = <<>>
    /\ net' = Quiet
    /\ result' = NoOutcome
    /\ raised_at' = ""
    /\ san_in' = EmptyDict
    /\ san_out' = EmptyDict
    /\ san_twice' = EmptyDict

\* every operation, every server address, every behaviour of the network
Next ==
    \/ create_application(Configs, BodyParamsSmall)
    \/ get_applications(Configs, QueryParamsSmall)
    \/ get_application_by_name(Configs, NameParams)
    \/ update_application(Configs, BodyParamsSmall)
    \/ delete_application(Configs, NameParams)
    \/ get_clusters(Configs, NameParams)
    \/ check_health(Configs)
    \/ TransportFails(TransportErrors)
    \/ ResponseArrives(Responses)
    \/ Finish

Spec == Init /\ [][Next]_vars

\* one server address, every shape of the params, and the sanitizer on its own
NextBody ==
    \/ create_application({GoodConfig}, BodyParams)
    \/ get_applications({GoodConfig}, QueryParams)
    \/ get_application_by_name({GoodConfig}, NameParams)
    \/ update_application({GoodConfig}, BodyParams)
    \/ delete_application({GoodConfig}, NameParams)
    \/ get_clusters({GoodConfig}, ClusterParams)
    \/ check_health({GoodConfig})
    \/ TransportFails({"ConnectionError"})
    \/ ResponseArrives(ResponsesSmall)
    \/ Sanitize(Mappings(MaxDepth))
    \/ SanitizeAgain
    \/ Finish

SpecBody == Init /\ [][NextBody]_vars

(***************************************************************************)
(* Properties.                                                             *)
(***************************************************************************)
RECURSIVE NoEmptyValue(_)
NoEmptyValue(mapping) ==
    \A key \in DOMAIN mapping :
        /\ mapping[key] # EmptyStr
        /\ mapping[key] # None
        /\ IsDict(mapping[key]) =>
              /\ DOMAIN mapping[key].v # {}
              /\ NoEmptyValue(mapping[key].v)

\* the JSON literals of the values the sanitizer removes
Removable == {"null", "\"\"", "{}"}

BodyRequests == {i \in 1..Len(sent) : sent[i].data.present}

\* C1: what check_payload returns holds no key, at any depth of nested
\* mappings, whose value is the empty string, None or an empty mapping, and
\* neither does the body create_application and update_application send
\* (a body that is itself the empty mapping has no key at all).
C1_NoEmptyValueAfterSanitizing ==
    /\ pc \in {"sanitized", "resanitized"} => NoEmptyValue(san_out)
    /\ \A i \in BodyRequests :
          \A leaf \in sent[i].data.doc :
              leaf[1] # <<>> => leaf[2] \notin Removable

\* a create whose merged payload has empty values three mappings deep
C1_Witness ==
    /\ pc = "waiting"
    /\ op = "create_application"
    /\ Get(params, "metadata") = D([name |-> EmptyStr, labels |-> D([env |-> EmptyStr])])
    /\ Get(params, "additional_properties") =
          D([operation |-> None, extra |-> D([k |-> D([j |-> EmptyStr])])])
    /\ <<<<"spec", "source", "repoURL">>, "\"r\"">> \in sent[1].data.doc

\* C2: check_payload is idempotent: sanitizing a sanitized mapping changes
\* nothing.
C2_SanitizerIdempotent ==
    pc = "resanitized" => san_twice = san_out

\* a mapping whose nested mapping becomes empty only once its child is removed
C2_Witness ==
    /\ pc = "resanitized"
    /\ san_in = [k \in {"k1", "k2"} |->
                    IF k = "k1" THEN D([j \in {"k1"} |-> EmptyStr]) ELSE Zero]
    /\ san_out = [k \in {"k2"} |-> Zero]

\* the five sources of the body, in the order the code applies them
Sources(p) ==
    << [metadata |-> D([name |-> Get(p, "name")]),
        spec |-> D([source |-> Get(p, "source"),
                    destination |-> Get(p, "destination")])],
       IF Truthy(Get(p, "spec")) THEN [spec |-> Get(p, "spec")] ELSE EmptyDict,
       IF Truthy(Get(p, "metadata")) THEN [metadata |-> Get(p, "metadata")]
       ELSE EmptyDict,
       IF Truthy(Get(p, "operation")) THEN [operation |-> Get(p, "operation")]
       ELSE EmptyDict,
       IF Truthy(Get(p, "additional_properties"))
       THEN Get(p, "additional_properties").v ELSE EmptyDict >>

IsPrefix(s, t) == Len(s) <= Len(t) /\ SubSeq(t, 1, Len(s)) = s

\* the leaves of a value placed at path
Under(path, value) ==
    IF IsDict(value) THEN Leaves(path, value.v)
    ELSE {<<path, JsonLiteral(value)>>}

\* source has something at path, above it or below it
Supplies(source, path) ==
    \E leaf \in Leaves(<<>>, source) :
        /\ leaf[1] # <<>>
        /\ IsPrefix(leaf[1], path) \/ IsPrefix(path, leaf[1])

\* C3 as stated (a deep merge): a value a source supplies at a key path is in
\* the body unless a later source supplies that path.
C3_DeepMerge ==
    \A i \in BodyRequests :
        \A a \in 1..5 :
            \A leaf \in Leaves(<<>>, Sources(params)[a]) :
                (/\ leaf[1] # <<>>
                 /\ leaf[2] \notin Removable
                 /\ \A b \in (a + 1)..5 : ~Supplies(Sources(params)[b], leaf[1]))
                => leaf \in sent[i].data.doc

\* the value the body holds at a top-level key when every merge replaces
\* the value of a key as a whole
Winner(p, key) ==
    LET src == Sources(p)
        inner == IF key \in DOMAIN src[2] THEN src[2][key].v
                 ELSE IF key \in DOMAIN src[3] THEN src[3][key].v
                 ELSE EmptyDict
    IN IF key \in DOMAIN src[5] THEN Under(<<key>>, src[5][key])
       ELSE IF key \in DOMAIN src[4] THEN Under(<<key>>, src[4][key])
       ELSE UNION {Under(<<key, j>>, IF j \in DOMAIN inner THEN inner[j]
                                     ELSE src[1][key].v[j]) :
                   j \in DOMAIN inner \cup DOMAIN src[1][key].v}

ShallowMerge(p) ==
    LET src == Sources(p)
        all == UNION {Winner(p, key) :
                      key \in DOMAIN src[1] \cup DOMAIN src[4] \cup DOMAIN src[5]}
        kept == {leaf \in all : leaf[2] \notin Removable}
    IN IF kept = {} THEN {<< <<>>, "{}" >>} ELSE kept

\* C3, amended: each merge is a dict update at one level.  The keys of spec
\* replace keys of body.spec, the keys of metadata replace keys of
\* body.metadata, operation replaces body.operation and the keys of
\* additional_properties replace top-level keys of the body; the later value
\* replaces the earlier one as a whole, nested mappings are not merged.
C3_ShallowMerge ==
    \A i \in BodyRequests : sent[i].data.doc = ShallowMerge(params)

\* additional_properties {metadata: {name: b}} after metadata {labels: ...}:
\* metadata.name is b and metadata.labels is gone
C3_Witness ==
    /\ pc = "waiting"
    /\ op = "update_application"
    /\ Get(params, "metadata") = D([labels |-> D([env |-> A("p")])])
    /\ Get(params, "additional_properties") = D([metadata |-> D([name |-> A("b")])])
    /\ <<<<"metadata", "name">>, "\"b\"">> \in sent[1].data.doc
    /\ \A leaf \in sent[1].data.doc : ~IsPrefix(<<"metadata", "labels">>, leaf[1])

\* the requests that carry a query mapping
QueryRequests == {i \in 1..Len(sent) : sent[i].params.present}

\* the additional_fields that get_applications merges into the query
MergedFields ==
    IF op = "get_applications" /\ Truthy(Get(params, "additional_fields"))
    THEN Get(params, "additional_fields").v
    ELSE EmptyDict

\* the values the caller supplied for the query, named or additional
SuppliedQueryValues ==
    LET named == IF op = "get_applications" THEN {"name", "projects"}
                 ELSE IF op = "get_clusters" THEN {"server", "name"}
                 ELSE {}
    IN {Get(params, k) : k \in named} \cup {MergedFields[k] : k \in DOMAIN MergedFields}

\* C8: the query mapping get_applications and get_clusters pass to the HTTP
\* call has no None and no empty-string value; a key of additional_fields
\* carries the additional value (and is absent when that value is None or
\* empty, whatever the named parameter was); when every supplied value is
\* None or empty, the query mapping is empty.
C8_QueryFiltered ==
    \A i \in QueryRequests :
        LET q == sent[i].params.q
        IN /\ \A k \in DOMAIN q : q[k] # None /\ q[k] # EmptyStr
           /\ \A k \in DOMAIN MergedFields :
                 IF MergedFields[k] \in {None, EmptyStr} THEN k \notin DOMAIN q
                 ELSE k \in DOMAIN q /\ q[k] = MergedFields[k]
           /\ SuppliedQueryValues \subseteq {None, EmptyStr} => q = EmptyDict

\* a named parameter replaced by an empty additional value: neither is sent
C8_Witness ==
    /\ pc = "waiting"
    /\ op = "get_applications"
    /\ Get(params, "name") = A("a")
    /\ Get(params, "projects") = EmptyStr
    /\ Get(params, "additional_fields") = D([name |-> EmptyStr])
    /\ sent[1].params.q = EmptyDict

\* how many times part occurs in s
Occurrences(s, part) ==
    Cardinality({i \in 1..Len(s) :
                   i + Len(part) - 1 <= Len(s)
                   /\ SubSeq(s, i, i + Len(part) - 1) = part})

Constructed == pc \in {"waiting", "done"} /\ raised_at # "ArgoCD.__init__"

\* C4: the base URL of a constructed client ends with /api/v1 and holds it
\* once, also when the server address already ended with /api/v1.
C4_ApiPathOnce ==
    Constructed => endswith(cd.url, ApiV1) /\ Occurrences(cd.url, ApiV1) = 1

SSLMessage == <<"SSL certificate validation failed">>
ConnectTimeoutMessage ==
    <<"The request timed out while trying to connect to the server">>
ReadTimeoutMessage ==
    <<"The server did not send any data in the allotted amount of time">>
ConnectionMessage == <<"Invalid Credentials">>

\* C5: when the HTTP call fails in transport, the caller of the operation
\* gets a ConnectorError whose message is that of the kind of failure: the
\* SSL message for a TLS failure, the connect-timeout and read-timeout
\* messages for the timeouts, "Invalid Credentials" for any other
\* connection failure.
C5_TransportMessage ==
    (pc = "done" /\ net.kind = "exception") =>
        /\ result.kind = "raise"
        /\ result.exc.cls = "ConnectorError"
        /\ net.cls = "SSLError" => result.exc.msg = SSLMessage
        /\ net.cls = "ConnectTimeout" => result.exc.msg = ConnectTimeoutMessage
        /\ net.cls = "ReadTimeout" => result.exc.msg = ReadTimeoutMessage
        /\ net.cls \in {"ConnectionError", "ProxyError"} =>
              result.exc.msg = ConnectionMessage

\* a TLS failure under the health check, which re-raises twice
C5_Witness ==
    /\ pc = "done"
    /\ op = "check_health"
    /\ net.kind = "exception"
    /\ net.cls = "SSLError"
    /\ result.exc.msg = SSLMessage

\* C6: a response is a success exactly when its status is below 400 (204
\* included); then the operation returns, unless the body announced as JSON
\* does not parse.  For every other status nothing is returned and the
\* caller gets a ConnectorError whose message is "<status_code>:<text>".
C6_StatusDecides ==
    (pc = "done" /\ net.kind = "response") =>
        LET r == net.response
        IN IF r.status_code < 400 \/ r.status_code = 204
           THEN /\ result.kind = "return" <=>
                      (r.json_header => r.text \in {"{}", "{\"items\":[1]}"})
                /\ result.kind = "raise" => raised_at = "response"
           ELSE /\ result.kind = "raise"
                /\ result.val = NoValue
                /\ result.exc =
                      ConnectorError(<<ToString(r.status_code), ":", r.text>>)

\* a 404 under the health check: the message crosses three except clauses
C6_Witness ==
    /\ pc = "done"
    /\ op = "check_health"
    /\ net.response = Response(404, FALSE, "Not Found")
    /\ result.exc.msg = <<"404", ":", "Not Found">>

\* C7: check_health returns True or raises a ConnectorError, nothing else.
C7_HealthTrueOrRaises ==
    (pc = "done" /\ op = "check_health") =>
        \/ result.kind = "return" /\ result.val = PyTrue
        \/ result.kind = "raise" /\ result.exc.cls = "ConnectorError"

\* C9: an invocation issues at most one HTTP request; once it is over no
\* call is left to make; one that fails before make_rest_call reaches
\* requests.request has sent nothing.
C9_AtMostOneRequest ==
    /\ Len(sent) <= 1
    /\ pc = "done" => todo = <<>>
    /\ (pc = "done" /\ raised_at \in {"ArgoCD.__init__", "build", "headers"}) =>
          sent = <<>>
    /\ (pc = "done" /\ net.kind # "none") => Len(sent) = 1

\* a list call answered with a success: over, with its one request
C9_Witness ==
    /\ pc = "done"
    /\ op = "get_applications"
    /\ result.kind = "return"
    /\ Len(sent) = 1

\* C10: an operation that is over has returned a value or raised a
\* ConnectorError that carries a message; no other exception reaches the
\* caller.
C10_OnlyConnectorError ==
    pc = "done" =>
        \/ result.kind = "return" /\ result.exc = NoExc /\ result.val # NoValue
        \/ /\ result.kind = "raise"
           /\ result.exc.cls = "ConnectorError"
           /\ result.exc.msg # <<>>

\* no server address: the constructor's AttributeError becomes a ConnectorError
C10_Witness ==
    /\ pc = "done"
    /\ op = "delete_application"
    /\ config.server_url = NoneStr
    /\ raised_at = "ArgoCD.__init__"
    /\ result.exc = ConnectorError(<<"'NoneType' object has no attribute 'strip'">>)

====
